---- MODULE Spec2Model ----
(***************************************************************************)
(* Pushover Open Client listener (armedad/pushover_listener).              *)
(*                                                                         *)
(* One PushoverClient (custom_components/pushover_listener/                *)
(* pushover_listener.py), the host that drives it (__init__.py), the       *)
(* provider's per-device message queue and the identity storage.           *)
(*                                                                         *)
(* Every await of the client is one step of the model: the request is in   *)
(* flight while the pc names the call, and the step that leaves the pc     *)
(* draws the outcome of the call.  Code between two awaits is atomic, as   *)
(* it is on the asyncio event loop.                                        *)
(***************************************************************************)
EXTENDS Integers, Sequences, FiniteSets, TLC

(***************************************************************************)
(* Bounds of the model.                                                    *)
(***************************************************************************)
MaxMsgs == 2        \* messages the provider enqueues over a run
FirstId == 9        \* id the provider gives the first message (9, 10: the
                    \* decimal strings "9" and "10" order differently from 9 and 10)
MaxStarts == 2      \* calls of start() on the client
MaxAckFails == 1    \* failed acknowledge requests of live cycles
MaxBodyLen == 3     \* length of the generated message bodies

(***************************************************************************)
(* Program constants.                                                      *)
(***************************************************************************)
INITIAL_RECONNECT_DELAY == 10
MAX_RECONNECT_DELAY == 300
RECONNECT_FACTOR == 2

None == 0           \* Python's None for secret, device_id, _ws_task, store data

UnstartedTask == -1 \* the task of a listen() called before any start()

Min(a, b) == IF a <= b THEN a ELSE b

SetMax(S) == CHOOSE x \in S : \A y \in S : y <= x

(***************************************************************************)
(* Strings are sequences of one-character strings.                         *)
(***************************************************************************)
DigitChars == <<"0", "1", "2", "3", "4", "5", "6", "7", "8", "9">>

DigitVal(c) == (CHOOSE i \in 1..10 : DigitChars[i] = c) - 1

\* str(n) of a non-negative integer: the id as it travels in the JSON body.
RECURSIVE IntToStr(_)
IntToStr(n) ==
    IF n < 10 THEN <<DigitChars[n + 1]>>
    ELSE Append(IntToStr(n \div 10), DigitChars[(n % 10) + 1])

\* int(s) of a decimal string.
RECURSIVE StrToInt(_)
StrToInt(s) ==
    IF Len(s) = 0 THEN 0
    ELSE 10 * StrToInt(SubSeq(s, 1, Len(s) - 1)) + DigitVal(s[Len(s)])

\* s < t in Python's string order (lexicographic by character).
RECURSIVE StrLess(_, _)
StrLess(s, t) ==
    IF Len(t) = 0 THEN FALSE
    ELSE IF Len(s) = 0 THEN TRUE
    ELSE IF s[1] # t[1] THEN DigitVal(s[1]) < DigitVal(t[1])
    ELSE StrLess(Tail(s), Tail(t))

K_id == <<"i", "d">>
K_message == <<"m", "e", "s", "s", "a", "g", "e">>
K_user_email == <<"u", "s", "e", "r", "_", "e", "m", "a", "i", "l">>
K_device_name == <<"d", "e", "v", "i", "c", "e", "_", "n", "a", "m", "e">>
K_device_id == <<"d", "e", "v", "i", "c", "e", "_", "i", "d">>

(***************************************************************************)
(* Constructor arguments of the client.                                    *)
(***************************************************************************)
Email == <<"e", "@", "x">>
DeviceName == <<"h", "a">>

(***************************************************************************)
(* Python string and dict operations used by _enrich_message_payload.      *)
(***************************************************************************)
IsSpace(c) == c \in {" ", "\t", "\n", "\r"}

\* s.strip(): leading and trailing whitespace removed.
RECURSIVE LStrip(_)
LStrip(s) == IF Len(s) > 0 /\ IsSpace(s[1]) THEN LStrip(Tail(s)) ELSE s

RECURSIVE RStrip(_)
RStrip(s) ==
    IF Len(s) > 0 /\ IsSpace(s[Len(s)]) THEN RStrip(SubSeq(s, 1, Len(s) - 1)) ELSE s

Strip(s) == LStrip(RStrip(s))

\* s.rstrip("&"): every trailing '&' removed.
RECURSIVE RStripAmp(_)
RStripAmp(s) ==
    IF Len(s) > 0 /\ s[Len(s)] = "&" THEN RStripAmp(SubSeq(s, 1, Len(s) - 1)) ELSE s

\* c in s
Contains(s, c) == \E i \in 1..Len(s) : s[i] = c

\* position of the first c in s (s contains c)
FirstIndex(s, c) == CHOOSE i \in 1..Len(s) : s[i] = c /\ \A j \in 1..(i - 1) : s[j] # c

\* s.split("\n"): the pieces between newlines, empty pieces included.
RECURSIVE SplitLines(_)
SplitLines(s) ==
    IF ~Contains(s, "\n") THEN <<s>>
    ELSE LET i == FirstIndex(s, "\n")
         IN  <<SubSeq(s, 1, i - 1)>> \o SplitLines(SubSeq(s, i + 1, Len(s)))

\* key, value = line.split("=", 1)
SplitKey(line) == SubSeq(line, 1, FirstIndex(line, "=") - 1)
SplitValue(line) == SubSeq(line, FirstIndex(line, "=") + 1, Len(line))

\* x.strip().rstrip("&")
Clean(x) == RStripAmp(Strip(x))

\* variant: d.setdefault(k, v), the first value written for a key stays
Put_keepsFirst(d, k, v) == [x \in (DOMAIN d) \cup {k} |-> IF x \in DOMAIN d THEN d[x] ELSE v]

\* d[k] = v
Put(d, k, v) == [x \in (DOMAIN d) \cup {k} |-> IF x = k THEN v ELSE d[x]]

\* the body of the loop over the lines of the message
EnrichLine(enriched, line) ==
    IF Contains(line, "=")
    THEN LET key == Clean(SplitKey(line))
             value == Clean(SplitValue(line))
         IN  IF key # <<>> THEN Put(enriched, key, value) ELSE enriched
    ELSE enriched

RECURSIVE EnrichLines(_, _)
EnrichLines(enriched, lines) ==
    IF lines = <<>> THEN enriched
    ELSE EnrichLines(EnrichLine(enriched, Head(lines)), Tail(lines))

\* PushoverClient._enrich_message_payload(msg)
EnrichMessagePayload(msg) ==
    LET base == Put(Put(msg, K_user_email, Email), K_device_name, DeviceName)
    IN  IF K_message \in DOMAIN msg
        THEN EnrichLines(base, SplitLines(msg[K_message]))
        ELSE base

(***************************************************************************)
(* State.                                                                  *)
(***************************************************************************)
VARIABLES
    \* PushoverClient fields
    running,            \* self._running
    secret,             \* self.secret (None, or the secret the provider issued)
    device_id,          \* self.device_id (None, or the provider's device id)
    ws_task,            \* self._ws_task (None, or the session whose task it names)
    reconnect_delay,    \* self._reconnect_delay
    \* identity storage (the Store of the device name)
    store,              \* the stored device_id, None when nothing is stored
    \* provider
    queue,              \* ids of the messages pending for the device
    nextId,             \* id of the next message to arrive
    loginCount,         \* secrets issued
    regCount,           \* devices registered for the device name
    \* host (async_setup_entry / async_unload_entry)
    hostPc,             \* where the host is in start() / stop()
    starts,             \* calls of start() so far; the current session's number
    startErr,           \* exception raised by the last start(), "none" if none
    \* listen task of the current session
    taskPc,             \* where listen() is
    cancelReq,          \* Task.cancel() was called and not yet delivered
    \* locals of fetch_and_fire / download_and_discard_old_messages
    messages,           \* the fetched batch, in the provider's order
    emitIdx,            \* messages already handled by the for loop
    max_id,             \* max_id handed to delete_messages_up_to
    \* history
    loginResp,          \* response to the last login request
    validateRet,        \* what the last async_validate_credentials returned
    emitted,            \* per message id, events fired on the bus (2: two or more)
    cycleEmitted,       \* ids fired in the current live cycle, in order
    ackFails,           \* failed acknowledge requests of live cycles
    backlog,            \* ids pending when the current start() was called
    liveArrived,        \* <<id, session>>: the id arrived while the session was up
    droppedByDrain,     \* <<id, session>>: the session's startup drain removed the id un-emitted
    droppedByLive,      \* ids a live-cycle acknowledge removed un-emitted
    saveFails,          \* failed saves of the device id
    sleptLast,          \* last backoff delay slept to its end since the last login
    sleptPrev,          \* the one before it (0: none)
    stopAt,             \* taskPc when the last stop() was called
    fetched,            \* ids the provider put in the batch being handled
    settled,            \* ids of the live batches whose acknowledge succeeded
    startLog,           \* steps of the current start() that failed, and "absent"
    surfaced,           \* <<cause, error kind>> of the starts that failed so far
    lastFail,           \* what failed in the last step of listen(), "none" if nothing
    unacked,            \* ids of the live batch whose acknowledge failed last
    lastFrame,          \* the frame the frame loop got last on this connection
    loginLine,          \* the login line sent on the last connection, <<>> if none
    \* host registry (hass.data[DOMAIN])
    registry,           \* the entry's client/task record is in the registry
    \* enrichment of one message on its own
    msgIn,              \* the message handed to _enrich_message_payload
    enrichedOut,        \* its result
    enrichPc,           \* "idle" | "done"
    \* one batch through the loop and the acknowledge of fetch_and_fire
    batchIn,            \* the messages as the provider sent them
    rawBatch,           \* the list messages of fetch_and_fire, as the loop leaves it
    fired,              \* the mappings handed to async_fire, in order
    ackId,              \* max_id handed to delete_messages_up_to, 0 before
    cyclePc             \* "idle" | "emit" | "acked"

clientVars == <<running, secret, device_id, ws_task, reconnect_delay>>
provVars == <<queue, nextId, loginCount, regCount>>
hostVars == <<hostPc, starts, startErr>>
taskVars == <<taskPc, cancelReq>>
localVars == <<messages, emitIdx, max_id>>
authHist == <<loginResp, validateRet>>
msgHist == <<emitted, cycleEmitted, ackFails, backlog, liveArrived,
             droppedByDrain, droppedByLive>>
sleepHist == <<sleptLast, sleptPrev>>
obsHist == <<fetched, settled>>
startHist == <<startLog, surfaced>>
failHist == <<lastFail, unacked>>
connHist == <<lastFrame, loginLine>>
cycleVars == <<batchIn, rawBatch, fired, ackId, cyclePc>>
pureVars == <<msgIn, enrichedOut, enrichPc, cycleVars>>

vars == <<clientVars, store, provVars, hostVars, taskVars, localVars, authHist,
          msgHist, saveFails, sleepHist, stopAt, obsHist, startHist, failHist,
          connHist, registry, pureVars>>

Ids == FirstId..(FirstId + MaxMsgs - 1)

EmptyDict == [x \in {} |-> <<>>]

\* PushoverClient.__init__, and a provider with an empty queue
InitMain ==
    /\ running = FALSE
    /\ secret = None
    /\ device_id = None
    /\ ws_task = None
    /\ reconnect_delay = INITIAL_RECONNECT_DELAY
    /\ store = None
    /\ queue = {}
    /\ nextId = FirstId
    /\ loginCount = 0
    /\ regCount = 0
    /\ hostPc = "init"
    /\ starts = 0
    /\ startErr = "none"
    /\ taskPc = "none"
    /\ cancelReq = FALSE
    /\ messages = <<>>
    /\ emitIdx = 0
    /\ max_id = 0
    /\ loginResp = [kind |-> "none"]
    /\ validateRet = None
    /\ emitted = [i \in Ids |-> 0]
    /\ cycleEmitted = <<>>
    /\ ackFails = 0
    /\ backlog = {}
    /\ liveArrived = {}
    /\ droppedByDrain = {}
    /\ droppedByLive = {}
    /\ saveFails = 0
    /\ sleptLast = 0
    /\ sleptPrev = 0
    /\ stopAt = "none"
    /\ fetched = {}
    /\ settled = {}
    /\ startLog = {}
    /\ surfaced = {}
    /\ lastFail = "none"
    /\ unacked = {}
    /\ lastFrame = "none"
    /\ loginLine = <<>>
    /\ registry = FALSE

\* no batch is taken through the loop on its own
InitCycleIdle ==
    /\ batchIn = <<>>
    /\ rawBatch = <<>>
    /\ fired = <<>>
    /\ ackId = 0
    /\ cyclePc = "idle"

Init ==
    /\ InitMain
    /\ msgIn = EmptyDict
    /\ enrichedOut = EmptyDict
    /\ enrichPc = "idle"
    /\ InitCycleIdle

(***************************************************************************)
(* What the provider and the storage can answer.                           *)
(***************************************************************************)
\* Why a start() failed, as the caller needs to tell it: the provider
\* rejected the login ("auth") or the registration ("registration"), or the
\* request did not get through ("transport").
FailureCause(step, resp) ==
    IF resp.kind = "net" THEN "transport"
    ELSE IF step = "validate" THEN "auth"
    ELSE "registration"

\* A login or registration response: a JSON body with its status field, an
\* HTTP error status, or a transport failure.
StatusResponses ==
    {[kind |-> "ok", status |-> 1], [kind |-> "ok", status |-> 0],
     [kind |-> "http"], [kind |-> "net"]}

\* The outcome of a request whose body is not read.
PlainResponses == {"ok", "http", "net"}

\* resp.raise_for_status() or the request itself raises a ClientError
RaisesClientError(kind) == kind \in {"http", "net"}

\* A message as it travels in the messages.json body.
WireMsg(i) == K_id :> IntToStr(i)

\* The orders in which the provider may return the pending messages.
Orders(S) ==
    {p \in [1..Cardinality(S) -> S] : \A i, j \in 1..Cardinality(S) : p[i] = p[j] => i = j}

\* A messages.json response: the pending messages in some order, an HTTP
\* error status, a transport failure, or a body that is not JSON.
FetchResponses ==
    {[kind |-> "ok", messages |-> [i \in 1..Len(p) |-> WireMsg(p[i])]] : p \in Orders(queue)}
        \cup {[kind |-> "http"], [kind |-> "net"], [kind |-> "malformed"]}

\* the exception that reading a response of the kind raises: raise_for_status
\* and the request raise a ClientError, resp.json() of a malformed body a
\* ValueError
ResponseError(kind) ==
    IF RaisesClientError(kind) THEN "ClientError"
    ELSE IF kind = "malformed" THEN "ValueError"
    ELSE "none"

\* What Store.async_load can do: return the stored data, None when nothing
\* is stored, or raise on storage it cannot read.
LoadOutcomes == {"data", "raise"}

\* the data async_load returns for the storage: a dict, empty for None
StoreData(s) == IF s = None THEN EmptyDict ELSE K_device_id :> s

\* update_highest_message: the provider discards every message up to the id
ProviderDelete(q, upTo) == {i \in q : i > upTo}

\* the ids an acknowledge up to upTo removes before any event was fired for them
Unemitted(q, upTo) == {i \in q : i <= upTo /\ emitted[i] = 0}

(***************************************************************************)
(* Exceptions and the handlers of the client.  ClientError and ValueError  *)
(* derive from Exception; CancelledError derives from BaseException only.  *)
(***************************************************************************)
IsException(exc) == exc \in {"ClientError", "ValueError"}

\* variant: the requests of the message channel are not guarded
CatchesClientError_none(exc) == FALSE

\* except ClientError, of fetch_and_fire, delete_messages_up_to and
\* download_and_discard_old_messages
CatchesClientError(exc) == exc = "ClientError"

\* variant: listen logs a ClientError only
ListenHandler_clientErrorOnly(exc) ==
    IF exc = "CancelledError" THEN "raise"
    ELSE IF exc = "ClientError" THEN "log"
    ELSE "none"

\* variant: listen logs the cancellation as it logs a failure
ListenHandler_swallowsCancel(exc) ==
    IF exc = "CancelledError" \/ IsException(exc) THEN "log" ELSE "none"

\* the except clauses of listen: CancelledError is raised again, any
\* Exception is logged
ListenHandler(exc) ==
    IF exc = "CancelledError" THEN "raise"
    ELSE IF IsException(exc) THEN "log"
    ELSE "none"

\* the awaits inside the try of listen
InTry == {"connect", "login", "recv", "settle", "fetch", "ack"}

\* Where listen() is once exc was raised at the await pc: back in the frame
\* loop when the message channel caught it, in the finally when listen
\* logged it, and over when it left listen ("cancelled" for a CancelledError,
\* "raised" for any other exception).
Raised(pc, exc) ==
    IF pc \in {"fetch", "ack"} /\ CatchesClientError(exc) THEN "recv"
    ELSE IF pc \in InTry /\ ListenHandler(exc) = "log" THEN "close"
    ELSE IF exc = "CancelledError" THEN "cancelled"
    ELSE "raised"

(***************************************************************************)
(* api.async_validate_credentials                                          *)
(***************************************************************************)
\* variant: the status field of the body is not looked at
AsyncValidateCredentials_noStatusCheck(resp, issued) ==
    IF RaisesClientError(resp.kind)
    THEN [ret |-> None, err |-> "InvalidAuthError"]
    ELSE [ret |-> issued, err |-> "none"]

AsyncValidateCredentials(resp, issued) ==
    IF RaisesClientError(resp.kind)
    THEN [ret |-> None, err |-> "InvalidAuthError"]
    ELSE IF resp.status # 1
         THEN [ret |-> None, err |-> "InvalidAuthError"]
         ELSE [ret |-> issued, err |-> "none"]

\* variant: max(m["id"] for m in messages), the ids compared as strings
MaxId_str(msgs) ==
    StrToInt(CHOOSE s \in {msgs[i][K_id] : i \in 1..Len(msgs)} :
                 \A t \in {msgs[i][K_id] : i \in 1..Len(msgs)} : ~StrLess(s, t))

\* variant: int(messages[0]["id"]), the provider's order taken as descending
MaxId_first(msgs) == StrToInt(msgs[1][K_id])

\* max(int(m["id"]) for m in messages)
MaxId(msgs) == SetMax({StrToInt(msgs[i][K_id]) : i \in 1..Len(msgs)})

\* variant: the loaded data is not looked at
LoadCachedDeviceId_ignoresData(data) == None

\* load_cached_device_id: data.get("device_id") if data else None
LoadCachedDeviceId(data) ==
    IF DOMAIN data # {}
    THEN IF K_device_id \in DOMAIN data THEN data[K_device_id] ELSE None
    ELSE None

\* variant: the cached id is not consulted
NeedsRegistration_always(id) == TRUE

\* if not self.device_id
NeedsRegistration(id) == id = None

(***************************************************************************)
(* PushoverClient.start, driven by async_setup_entry                       *)
(***************************************************************************)
TaskOver == taskPc \in {"none", "done", "cancelled", "raised"}

StartCall ==
    /\ hostPc \in {"init", "stopped", "failed"}
    /\ TaskOver
    /\ starts < MaxStarts
    /\ running' = TRUE
    /\ hostPc' = "validate"
    /\ starts' = starts + 1
    /\ startErr' = "none"
    /\ taskPc' = "none"
    /\ cancelReq' = FALSE
    /\ backlog' = queue
    /\ stopAt' = "none"
    /\ loginResp' = [kind |-> "none"]
    /\ validateRet' = None
    /\ startLog' = {}
    /\ lastFail' = "none"
    /\ unacked' = {}
    /\ lastFrame' = "none"
    /\ loginLine' = <<>>
    /\ UNCHANGED <<secret, device_id, ws_task, reconnect_delay, store, provVars,
                   localVars, emitted, cycleEmitted, ackFails, liveArrived,
                   droppedByDrain, droppedByLive, saveFails, sleepHist, obsHist,
                   surfaced, registry, pureVars>>

StartValidate ==
    /\ hostPc = "validate"
    /\ \E resp \in StatusResponses :
         LET r == AsyncValidateCredentials(resp, loginCount + 1)
         IN  /\ loginResp' = resp
             /\ validateRet' = r.ret
             /\ IF r.err = "none"
                THEN /\ secret' = r.ret
                     /\ loginCount' = loginCount + 1
                     /\ hostPc' = "load"
                     /\ startErr' = startErr
                     /\ UNCHANGED startHist
                ELSE /\ startErr' = r.err
                     /\ hostPc' = "failed"
                     /\ startLog' = startLog \cup {"validate"}
                     /\ surfaced' = surfaced \cup {<<FailureCause("validate", resp), r.err>>}
                     /\ UNCHANGED <<secret, loginCount>>
    /\ UNCHANGED <<running, device_id, ws_task, reconnect_delay, store, queue, nextId,
                   regCount, starts, taskVars, localVars, msgHist, saveFails,
                   sleepHist, stopAt, obsHist, failHist, connHist, registry, pureVars>>

\* self.device_id = await self.load_cached_device_id(), then the test of it;
\* an exception of async_load is caught nowhere in start()
StartLoad ==
    /\ hostPc = "load"
    /\ \E outcome \in LoadOutcomes :
         IF outcome = "raise"
         THEN /\ startErr' = "StorageError"
              /\ hostPc' = "failed"
              /\ startLog' = startLog \cup {"load"}
              /\ UNCHANGED device_id
         ELSE /\ device_id' = LoadCachedDeviceId(StoreData(store))
              /\ hostPc' = IF NeedsRegistration(device_id') THEN "register" ELSE "drainFetch"
              /\ startLog' = IF store = None THEN startLog \cup {"absent"} ELSE startLog
              /\ UNCHANGED startErr
    /\ UNCHANGED <<running, secret, ws_task, reconnect_delay, store, provVars, starts,
                   taskVars, localVars, authHist, msgHist, saveFails,
                   sleepHist, stopAt, obsHist, surfaced, failHist, connHist, registry, pureVars>>

StartRegister ==
    /\ hostPc = "register"
    /\ \E resp \in StatusResponses :
         IF ~RaisesClientError(resp.kind) /\ resp.status = 1
         THEN /\ device_id' = regCount + 1
              /\ regCount' = regCount + 1
              /\ hostPc' = "save"
              /\ startErr' = startErr
              /\ UNCHANGED startHist
         ELSE /\ startErr' = "RuntimeError"
              /\ hostPc' = "failed"
              /\ startLog' = startLog \cup {"register"}
              /\ surfaced' = surfaced \cup {<<FailureCause("register", resp), "RuntimeError">>}
              /\ UNCHANGED <<device_id, regCount>>
    /\ UNCHANGED <<running, secret, ws_task, reconnect_delay, store, queue, nextId,
                   loginCount, starts, taskVars, localVars, authHist, msgHist,
                   saveFails, sleepHist, stopAt, obsHist, failHist, connHist, registry, pureVars>>

\* variant: save_device_id lets the exception of async_save out
StartSave_raises ==
    /\ hostPc = "save"
    /\ \E saved \in BOOLEAN :
         IF saved
         THEN /\ store' = device_id
              /\ hostPc' = "drainFetch"
              /\ UNCHANGED <<saveFails, startLog, startErr>>
         ELSE /\ saveFails' = saveFails + 1
              /\ startLog' = startLog \cup {"save"}
              /\ startErr' = "StorageError"
              /\ hostPc' = "failed"
              /\ UNCHANGED store
    /\ UNCHANGED <<clientVars, provVars, starts, taskVars, localVars,
                   authHist, msgHist, sleepHist, stopAt, obsHist, surfaced, failHist,
                   connHist, registry, pureVars>>

\* save_device_id: an exception of async_save is logged
StartSave ==
    /\ hostPc = "save"
    /\ \E saved \in BOOLEAN :
         IF saved
         THEN store' = device_id /\ UNCHANGED <<saveFails, startLog>>
         ELSE /\ saveFails' = saveFails + 1
              /\ startLog' = startLog \cup {"save"}
              /\ UNCHANGED store
    /\ hostPc' = "drainFetch"
    /\ UNCHANGED <<clientVars, provVars, starts, startErr, taskVars, localVars,
                   authHist, msgHist, sleepHist, stopAt, obsHist, surfaced, failHist,
                   connHist, registry, pureVars>>

\* download_and_discard_old_messages: the GET and what follows it
StartDrainFetch ==
    /\ hostPc = "drainFetch"
    /\ \E resp \in FetchResponses :
         LET exc == ResponseError(resp.kind)
         IN  IF exc # "none"
             THEN /\ startLog' = startLog \cup {"drainFetch"}
                  /\ IF CatchesClientError(exc)
                     THEN \* the warning
                          hostPc' = "started" /\ UNCHANGED startErr
                     ELSE hostPc' = "failed" /\ startErr' = exc
                  /\ UNCHANGED <<messages, max_id, fetched>>
             ELSE IF resp.messages = <<>>
             THEN \* the early return
                  /\ hostPc' = "started"
                  /\ UNCHANGED <<messages, max_id, fetched, startLog, startErr>>
             ELSE /\ messages' = resp.messages
                  /\ fetched' = queue
                  /\ max_id' = MaxId(resp.messages)
                  /\ hostPc' = "drainAck"
                  /\ UNCHANGED <<startLog, startErr>>
    /\ UNCHANGED <<clientVars, store, provVars, starts, taskVars, emitIdx,
                   authHist, msgHist, saveFails, sleepHist, stopAt, settled, surfaced,
                   failHist, connHist, registry, pureVars>>

\* delete_messages_up_to(max_id) called by the startup drain
StartDrainAck ==
    /\ hostPc = "drainAck"
    /\ \E kind \in PlainResponses :
         IF RaisesClientError(kind)
         THEN /\ startLog' = startLog \cup {"drainAck"}
              /\ UNCHANGED <<queue, droppedByDrain>>
         ELSE /\ queue' = ProviderDelete(queue, max_id)
              /\ droppedByDrain' =
                    droppedByDrain \cup {<<i, starts>> : i \in Unemitted(queue, max_id)}
              /\ UNCHANGED startLog
    /\ hostPc' = "started"
    /\ messages' = <<>>
    /\ max_id' = 0
    /\ fetched' = {}
    /\ UNCHANGED <<clientVars, store, nextId, loginCount, regCount, starts, startErr,
                   taskVars, emitIdx, authHist, emitted, cycleEmitted, ackFails,
                   backlog, liveArrived, droppedByLive, saveFails, sleepHist, stopAt,
                   settled, surfaced, failHist, connHist, registry, pureVars>>

\* asyncio.create_task(client.listen())
CreateTask ==
    /\ hostPc = "started"
    /\ hostPc' = "listening"
    /\ taskPc' = "created"
    /\ registry' = TRUE
    /\ UNCHANGED <<clientVars, store, provVars, starts, startErr, cancelReq, localVars,
                   authHist, msgHist, saveFails, sleepHist, stopAt, obsHist, startHist, failHist, connHist, pureVars>>

\* client.listen() run as a task on a client whose start() was never called
ListenUnstarted ==
    /\ hostPc = "init"
    /\ starts = 0
    /\ taskPc = "none"
    /\ taskPc' = "created"
    /\ UNCHANGED <<clientVars, store, provVars, hostVars, cancelReq, localVars,
                   authHist, msgHist, saveFails, sleepHist, stopAt, obsHist, startHist,
                   failHist, connHist, registry, pureVars>>

(***************************************************************************)
(* PushoverClient.stop, driven by async_unload_entry                       *)
(***************************************************************************)
\* The host runs only while the task is suspended at an await: the for loop
\* of fetch_and_fire has none.
TaskSuspended == taskPc # "emit"

\* variant: stop() clears the flag and waits, without cancelling the task
StopCall_noCancel ==
    /\ hostPc = "listening"
    /\ registry
    /\ TaskSuspended
    /\ running' = FALSE
    /\ stopAt' = taskPc
    /\ hostPc' = "stopping"
    /\ registry' = FALSE
    /\ UNCHANGED <<secret, device_id, ws_task, reconnect_delay, store, provVars, starts,
                   startErr, taskVars, localVars, authHist, msgHist, saveFails,
                   sleepHist, obsHist, startHist, failHist, connHist, pureVars>>

\* variant: stop() cancels and awaits the task whether or not it holds a handle
StopCall_awaitsAlways ==
    /\ hostPc = "listening"
    /\ registry
    /\ TaskSuspended
    /\ running' = FALSE
    /\ stopAt' = taskPc
    /\ cancelReq' = TRUE
    /\ hostPc' = "stopping"
    /\ registry' = FALSE
    /\ UNCHANGED <<secret, device_id, ws_task, reconnect_delay, store, provVars, starts,
                   startErr, taskPc, localVars, authHist, msgHist, saveFails,
                   sleepHist, obsHist, startHist, failHist, connHist, pureVars>>

\* async_unload_entry pops the record of the entry and stops its client
StopCall ==
    /\ hostPc = "listening"
    /\ registry
    /\ TaskSuspended
    /\ running' = FALSE
    /\ stopAt' = taskPc
    /\ IF ws_task # None
       THEN IF ws_task = starts
            THEN \* cancel() of the running task, then await it
                 /\ cancelReq' = TRUE
                 /\ hostPc' = "stopping"
            ELSE \* the handle of an earlier session's task, which is over
                 /\ cancelReq' = cancelReq
                 /\ hostPc' = "stopped"
       ELSE /\ cancelReq' = cancelReq
            /\ hostPc' = "stopped"
    /\ registry' = FALSE
    /\ UNCHANGED <<secret, device_id, ws_task, reconnect_delay, store, provVars, starts,
                   startErr, taskPc, localVars, authHist, msgHist, saveFails,
                   sleepHist, obsHist, startHist, failHist, connHist, pureVars>>

\* variant: stop() does not await the task it cancelled
StopReturn_noWait ==
    /\ hostPc = "stopping"
    /\ hostPc' = "stopped"
    /\ UNCHANGED <<clientVars, store, provVars, starts, startErr, taskVars, localVars,
                   authHist, msgHist, saveFails, sleepHist, stopAt, obsHist, startHist,
                   failHist, connHist, registry, pureVars>>

\* await self._ws_task returns once the task is over
StopReturn ==
    /\ hostPc = "stopping"
    /\ taskPc \in {"done", "cancelled", "raised"}
    /\ hostPc' = "stopped"
    /\ UNCHANGED <<clientVars, store, provVars, starts, startErr, taskVars, localVars,
                   authHist, msgHist, saveFails, sleepHist, stopAt, obsHist, startHist, failHist, connHist, registry, pureVars>>

(***************************************************************************)
(* PushoverClient.listen                                                   *)
(***************************************************************************)
\* Python values of the two types the frame test compares
Bytes(c) == [type |-> "bytes", v |-> c]
Str(c) == [type |-> "str", v |-> c]

\* What async for msg in ws can yield; CLOSED ends the iteration.
Frames ==
    {[type |-> "BINARY", data |-> Bytes(c)] : c \in {"!", "#", "R", "E", "A"}}
        \cup {[type |-> "ERROR"], [type |-> "CLOSED"]}

\* the frame as the log line shows it
FrameName(msg) == IF msg.type = "BINARY" THEN msg.data.v ELSE msg.type

\* f"login:{self.device_id}:{self.secret}\n"
LoginStr(id, sec) == <<"login", ":", id, ":", sec, "\n">>

\* msg.data in (b"R", b"E", "A")
ReconnectRequest(data) == data \in {Bytes("R"), Bytes("E"), Str("A")}

\* variant: a binary frame the tests do not know starts a fetch
FrameTarget_fetchOnUnknown(msg) ==
    IF msg.type = "BINARY"
    THEN IF msg.data = Bytes("!") THEN "settle"
         ELSE IF msg.data = Bytes("#") THEN "recv"
         ELSE IF ReconnectRequest(msg.data) THEN "close"
         ELSE "settle"
    ELSE "close"

\* variant: the keep-alive frame ends the connection
FrameTarget_keepAliveReconnects(msg) ==
    IF msg.type = "BINARY"
    THEN IF msg.data = Bytes("!") THEN "settle"
         ELSE IF msg.data = Bytes("#") THEN "close"
         ELSE IF ReconnectRequest(msg.data) THEN "close"
         ELSE "recv"
    ELSE "close"

\* where the frame sends the loop: "settle", "recv" (next frame) or "close"
FrameTarget(msg) ==
    IF msg.type = "BINARY"
    THEN IF msg.data = Bytes("!") THEN "settle"
         ELSE IF msg.data = Bytes("#") THEN "recv"
         ELSE IF ReconnectRequest(msg.data) THEN "close"
         ELSE "recv"
    ELSE "close"

\* variant: the loop does not look at the flag
LoopTarget_always == "connect"

\* while self._running
LoopTarget == IF running THEN "connect" ELSE "done"

\* variant: the delay is halved after a failed attempt
NextDelay_halves(d) == d \div RECONNECT_FACTOR

\* variant: the delay doubles without the cap
NextDelay_noCap(d) == d * RECONNECT_FACTOR

\* min(self._reconnect_delay * RECONNECT_FACTOR, MAX_RECONNECT_DELAY)
NextDelay(d) == Min(d * RECONNECT_FACTOR, MAX_RECONNECT_DELAY)

\* variant: the loop leaves the last message out
LoopDone_offByOne(idx, msgs) == idx >= Len(msgs) - 1

\* the for loop over messages has handled every message
LoopDone(idx, msgs) == idx >= Len(msgs)

\* asyncio.current_task(): the task of the session, by its number
CurrentTask == IF starts = 0 THEN UnstartedTask ELSE starts

\* the first step of the task, up to its first await
TaskBegin ==
    /\ taskPc = "created"
    /\ ws_task' = CurrentTask
    /\ taskPc' = LoopTarget
    /\ UNCHANGED <<running, secret, device_id, reconnect_delay, store, provVars,
                   hostVars, cancelReq, localVars, authHist, msgHist, saveFails,
                   sleepHist, stopAt, obsHist, startHist, failHist, connHist, registry, pureVars>>

\* variant: the loop logs in again before each connection
TaskConnect_reauthenticates ==
    /\ taskPc = "connect"
    /\ ~cancelReq
    /\ secret' = loginCount + 1
    /\ loginCount' = loginCount + 1
    /\ \E opened \in BOOLEAN :
         IF opened
         THEN taskPc' = "login" /\ lastFail' = "none"
         ELSE taskPc' = Raised("connect", "ClientError") /\ lastFail' = "connect"
    /\ lastFrame' = "none"
    /\ loginLine' = <<>>
    /\ UNCHANGED <<running, device_id, ws_task, reconnect_delay, store, queue, nextId,
                   regCount, hostVars, cancelReq, localVars,
                   authHist, msgHist, saveFails, sleepHist, stopAt, obsHist, startHist,
                   unacked, registry, pureVars>>

\* session.ws_connect(WEBSOCKET_URL)
TaskConnect ==
    /\ taskPc = "connect"
    /\ ~cancelReq
    /\ \E opened \in BOOLEAN :
         IF opened
         THEN taskPc' = "login" /\ lastFail' = "none"
         ELSE taskPc' = Raised("connect", "ClientError") /\ lastFail' = "connect"
    /\ lastFrame' = "none"
    /\ loginLine' = <<>>
    /\ UNCHANGED <<clientVars, store, provVars, hostVars, cancelReq, localVars,
                   authHist, msgHist, saveFails, sleepHist, stopAt, obsHist, startHist,
                   unacked, registry, pureVars>>

\* variant: the delay is reset as soon as the connection is open
TaskLogin_resetsOnFailure ==
    /\ taskPc = "login"
    /\ ~cancelReq
    /\ reconnect_delay' = INITIAL_RECONNECT_DELAY
    /\ \E sent \in BOOLEAN :
         IF sent
         THEN /\ sleptLast' = 0
              /\ sleptPrev' = 0
              /\ taskPc' = "recv"
              /\ lastFail' = "none"
              /\ loginLine' = LoginStr(device_id, secret)
         ELSE /\ taskPc' = Raised("login", "ClientError")
              /\ lastFail' = "send"
              /\ UNCHANGED <<sleepHist, loginLine>>
    /\ UNCHANGED <<running, secret, device_id, ws_task, store, provVars, hostVars,
                   cancelReq, localVars, authHist, msgHist, saveFails, stopAt,
                   obsHist, startHist, unacked, lastFrame, registry, pureVars>>

\* ws.send_str(login_str), then the reset of the delay
TaskLogin ==
    /\ taskPc = "login"
    /\ ~cancelReq
    /\ \E sent \in BOOLEAN :
         IF sent
         THEN /\ reconnect_delay' = INITIAL_RECONNECT_DELAY
              /\ sleptLast' = 0
              /\ sleptPrev' = 0
              /\ taskPc' = "recv"
              /\ lastFail' = "none"
              /\ loginLine' = LoginStr(device_id, secret)
         ELSE /\ taskPc' = Raised("login", "ClientError")
              /\ lastFail' = "send"
              /\ UNCHANGED <<reconnect_delay, sleepHist, loginLine>>
    /\ UNCHANGED <<running, secret, device_id, ws_task, store, provVars, hostVars,
                   cancelReq, localVars, authHist, msgHist, saveFails, stopAt,
                   obsHist, startHist, unacked, lastFrame, registry, pureVars>>

\* one turn of async for msg in ws
TaskRecv ==
    /\ taskPc = "recv"
    /\ ~cancelReq
    /\ \E msg \in Frames :
         /\ taskPc' = FrameTarget(msg)
         /\ lastFail' = IF msg.type = "ERROR" THEN "frame" ELSE "none"
         /\ lastFrame' = FrameName(msg)
    /\ UNCHANGED <<clientVars, store, provVars, hostVars, cancelReq, localVars,
                   authHist, msgHist, saveFails, sleepHist, stopAt, obsHist, startHist,
                   unacked, loginLine, registry, pureVars>>

\* asyncio.sleep(0.5), then fetch_and_fire sends its GET
TaskSettle ==
    /\ taskPc = "settle"
    /\ ~cancelReq
    /\ taskPc' = "fetch"
    /\ UNCHANGED <<clientVars, store, provVars, hostVars, cancelReq, localVars,
                   authHist, msgHist, saveFails, sleepHist, stopAt, obsHist, startHist,
                   failHist, connHist, registry, pureVars>>

\* variant: the acknowledge is sent as soon as the batch is read
TaskFetch_ackFirst ==
    /\ taskPc = "fetch"
    /\ ~cancelReq
    /\ \E resp \in FetchResponses :
         LET exc == ResponseError(resp.kind)
         IN  IF exc # "none"
             THEN /\ taskPc' = Raised("fetch", exc)
                  /\ lastFail' = IF exc = "ClientError" THEN "fetch" ELSE "malformed"
                  /\ UNCHANGED <<messages, fetched, max_id>>
             ELSE IF resp.messages = <<>>
             THEN taskPc' = "recv" /\ lastFail' = "none"
                  /\ UNCHANGED <<messages, fetched, max_id>>
             ELSE /\ messages' = resp.messages
                  /\ fetched' = queue
                  /\ max_id' = MaxId(resp.messages)
                  /\ taskPc' = "ack"
                  /\ lastFail' = "none"
    /\ UNCHANGED <<clientVars, store, provVars, hostVars, cancelReq, emitIdx,
                   authHist, msgHist, saveFails, sleepHist, stopAt, settled, startHist,
                   unacked, connHist, registry, pureVars>>

\* variant: a failed GET is sent again at once
TaskFetch_retriesNow ==
    /\ taskPc = "fetch"
    /\ ~cancelReq
    /\ \E resp \in FetchResponses :
         LET exc == ResponseError(resp.kind)
         IN  IF exc # "none"
             THEN /\ taskPc' = IF CatchesClientError(exc) THEN "fetch" ELSE Raised("fetch", exc)
                  /\ lastFail' = IF exc = "ClientError" THEN "fetch" ELSE "malformed"
                  /\ UNCHANGED <<messages, fetched>>
             ELSE /\ messages' = resp.messages
                  /\ fetched' = queue
                  /\ taskPc' = "emit"
                  /\ lastFail' = "none"
    /\ UNCHANGED <<clientVars, store, provVars, hostVars, cancelReq, emitIdx, max_id,
                   authHist, msgHist, saveFails, sleepHist, stopAt, settled, startHist,
                   unacked, connHist, registry, pureVars>>

\* fetch_and_fire: the answer to the GET
TaskFetch ==
    /\ taskPc = "fetch"
    /\ ~cancelReq
    /\ \E resp \in FetchResponses :
         LET exc == ResponseError(resp.kind)
         IN  IF exc # "none"
             THEN /\ taskPc' = Raised("fetch", exc)
                  /\ lastFail' = IF exc = "ClientError" THEN "fetch" ELSE "malformed"
                  /\ UNCHANGED <<messages, fetched>>
             ELSE /\ messages' = resp.messages
                  /\ fetched' = queue
                  /\ taskPc' = "emit"
                  /\ lastFail' = "none"
    /\ UNCHANGED <<clientVars, store, provVars, hostVars, cancelReq, emitIdx, max_id,
                   authHist, msgHist, saveFails, sleepHist, stopAt, settled, startHist,
                   unacked, connHist, registry, pureVars>>

\* fetch_and_fire: one turn of the for loop, hass.bus.async_fire
TaskEmit ==
    /\ taskPc = "emit"
    /\ ~LoopDone(emitIdx, messages)
    /\ LET id == StrToInt(messages[emitIdx + 1][K_id])
       IN  /\ emitted' = [emitted EXCEPT ![id] = Min(@ + 1, 2)]
           /\ cycleEmitted' = Append(cycleEmitted, id)
    /\ emitIdx' = emitIdx + 1
    /\ UNCHANGED <<clientVars, store, provVars, hostVars, taskVars, messages, max_id,
                   authHist, ackFails, backlog, liveArrived, droppedByDrain,
                   droppedByLive, saveFails, sleepHist, stopAt, obsHist, startHist,
                   failHist, connHist, registry, pureVars>>

\* fetch_and_fire: after the loop, delete_messages_up_to(max_id) sends its POST
TaskSendAck ==
    /\ taskPc = "emit"
    /\ LoopDone(emitIdx, messages)
    /\ IF messages # <<>>
       THEN /\ max_id' = MaxId(messages)
            /\ taskPc' = "ack"
            /\ UNCHANGED <<messages, emitIdx, cycleEmitted, fetched>>
       ELSE /\ taskPc' = "recv"
            /\ messages' = <<>>
            /\ emitIdx' = 0
            /\ cycleEmitted' = <<>>
            /\ fetched' = {}
            /\ max_id' = max_id
    /\ UNCHANGED <<clientVars, store, provVars, hostVars, cancelReq, authHist, emitted,
                   ackFails, backlog, liveArrived, droppedByDrain, droppedByLive,
                   saveFails, sleepHist, stopAt, settled, startHist, failHist, connHist, registry, pureVars>>

\* delete_messages_up_to: the answer to the POST; a ClientError is logged
TaskAck ==
    /\ taskPc = "ack"
    /\ ~cancelReq
    /\ \E kind \in PlainResponses :
         LET exc == ResponseError(kind)
         IN  IF exc # "none"
             THEN /\ ackFails < MaxAckFails
                  /\ ackFails' = ackFails + 1
                  /\ taskPc' = Raised("ack", exc)
                  /\ lastFail' = "ack"
                  /\ unacked' = fetched
                  /\ UNCHANGED <<queue, droppedByLive, settled>>
             ELSE /\ queue' = ProviderDelete(queue, max_id)
                  /\ droppedByLive' = droppedByLive \cup Unemitted(queue, max_id)
                  /\ settled' = settled \cup fetched
                  /\ ackFails' = ackFails
                  /\ taskPc' = "recv"
                  /\ lastFail' = "none"
                  /\ unacked' = {}
    /\ messages' = <<>>
    /\ emitIdx' = 0
    /\ max_id' = 0
    /\ cycleEmitted' = <<>>
    /\ fetched' = {}
    /\ UNCHANGED <<clientVars, store, nextId, loginCount, regCount, hostVars, cancelReq,
                   authHist, emitted, backlog, liveArrived, droppedByDrain, saveFails,
                   sleepHist, stopAt, startHist, connHist, registry, pureVars>>

\* variant: the loop ends with the connection
TaskClose_noRetry ==
    /\ taskPc = "close"
    /\ ~cancelReq
    /\ taskPc' = "done"
    /\ UNCHANGED <<clientVars, store, provVars, hostVars, cancelReq, localVars,
                   authHist, msgHist, saveFails, sleepHist, stopAt, obsHist, startHist,
                   failHist, connHist, registry, pureVars>>

\* the finally of listen closes the session, then if self._running
TaskClose ==
    /\ taskPc = "close"
    /\ ~cancelReq
    /\ taskPc' = IF running THEN "sleep" ELSE LoopTarget
    /\ UNCHANGED <<clientVars, store, provVars, hostVars, cancelReq, localVars,
                   authHist, msgHist, saveFails, sleepHist, stopAt, obsHist, startHist,
                   failHist, connHist, registry, pureVars>>

\* asyncio.sleep(self._reconnect_delay) ran to its end
TaskSleep ==
    /\ taskPc = "sleep"
    /\ ~cancelReq
    /\ sleptPrev' = sleptLast
    /\ sleptLast' = reconnect_delay
    /\ reconnect_delay' = NextDelay(reconnect_delay)
    /\ taskPc' = LoopTarget
    /\ lastFail' = "none"
    /\ lastFrame' = "none"
    /\ UNCHANGED <<running, secret, device_id, ws_task, store, provVars, hostVars,
                   cancelReq, localVars, authHist, msgHist, saveFails, stopAt,
                   obsHist, startHist, unacked, loginLine, registry, pureVars>>

\* the awaits of listen and of what it calls
AwaitPcs == {"connect", "login", "recv", "settle", "fetch", "ack", "close", "sleep"}

\* CancelledError raised at the await the task is suspended in.  A POST in
\* flight may have reached the provider.
TaskCancelled ==
    /\ cancelReq
    /\ taskPc \in AwaitPcs
    /\ taskPc' = Raised(taskPc, "CancelledError")
    /\ cancelReq' = FALSE
    /\ \E applied \in (IF taskPc = "ack" THEN BOOLEAN ELSE {FALSE}) :
         IF applied
         THEN /\ queue' = ProviderDelete(queue, max_id)
              /\ droppedByLive' = droppedByLive \cup Unemitted(queue, max_id)
         ELSE UNCHANGED <<queue, droppedByLive>>
    /\ messages' = <<>>
    /\ emitIdx' = 0
    /\ max_id' = 0
    /\ cycleEmitted' = <<>>
    /\ fetched' = {}
    /\ lastFail' = "none"
    /\ unacked' = {}
    /\ lastFrame' = "none"
    /\ UNCHANGED <<clientVars, store, nextId, loginCount, regCount, hostVars, authHist,
                   emitted, ackFails, backlog, liveArrived, droppedByDrain, saveFails,
                   sleepHist, stopAt, settled, startHist, loginLine, registry, pureVars>>

(***************************************************************************)
(* The provider receives a message for the device.                         *)
(***************************************************************************)
\* start() has returned; and, more narrowly, stop() has not been called since
SessionUp == hostPc \in {"started", "listening", "stopping", "stopped"}
ClientUp == hostPc \in {"started", "listening"}

NewMessage ==
    /\ nextId < FirstId + MaxMsgs
    /\ queue' = queue \cup {nextId}
    /\ nextId' = nextId + 1
    /\ liveArrived' = IF ClientUp THEN liveArrived \cup {<<nextId, starts>>} ELSE liveArrived
    /\ UNCHANGED <<clientVars, store, loginCount, regCount, hostVars, taskVars,
                   localVars, authHist, emitted, cycleEmitted, ackFails, backlog,
                   droppedByDrain, droppedByLive, saveFails, sleepHist, stopAt,
                   obsHist, startHist, failHist, connHist, registry, pureVars>>

Next ==
    \/ StartCall
    \/ StartValidate
    \/ StartLoad
    \/ StartRegister
    \/ StartSave
    \/ StartDrainFetch
    \/ StartDrainAck
    \/ CreateTask
    \/ ListenUnstarted
    \/ StopCall
    \/ StopReturn
    \/ TaskBegin
    \/ TaskConnect
    \/ TaskLogin
    \/ TaskRecv
    \/ TaskSettle
    \/ TaskFetch
    \/ TaskEmit
    \/ TaskSendAck
    \/ TaskAck
    \/ TaskClose
    \/ TaskSleep
    \/ TaskCancelled
    \/ NewMessage

Spec == Init /\ [][Next]_vars

(***************************************************************************)
(* The scheduling of the task: the event loop runs a task that can run,    *)
(* and each await of the reconnect path ends (the session closes, the      *)
(* sleep elapses, the connection attempt and the send succeed or fail).    *)
(* A provider that eventually accepts connections does not refuse every    *)
(* attempt of a supervisor that keeps trying.                              *)
(***************************************************************************)
ConnectAccepted == TaskConnect /\ taskPc' = "login"
LoginSent == TaskLogin /\ taskPc' = "recv"

SpecLive ==
    /\ Spec
    /\ WF_vars(TaskBegin)
    /\ WF_vars(TaskClose)
    /\ WF_vars(TaskSleep)
    /\ WF_vars(TaskConnect)
    /\ WF_vars(TaskLogin)
    /\ SF_vars(ConnectAccepted)
    /\ SF_vars(LoginSent)

(***************************************************************************)
(* The host of src/__init__.py: async_unload_entry unloads the platforms   *)
(* first, pops the record whatever the outcome, and stops the client only  *)
(* when the platforms were unloaded.                                       *)
(***************************************************************************)
UnloadPlatformsFailed ==
    /\ hostPc = "listening"
    /\ registry
    /\ TaskSuspended
    /\ registry' = FALSE
    /\ UNCHANGED <<clientVars, store, provVars, hostVars, taskVars, localVars,
                   authHist, msgHist, saveFails, sleepHist, stopAt, obsHist, startHist,
                   failHist, connHist, pureVars>>

NextUnload == Next \/ UnloadPlatformsFailed

SpecUnload == Init /\ [][NextUnload]_vars

(***************************************************************************)
(* Properties of the delivery protocol.                                    *)
(***************************************************************************)
EmittedIds == {cycleEmitted[i] : i \in DOMAIN cycleEmitted}

AckInFlight == taskPc = "ack" \/ hostPc = "drainAck"

\* C1: in a live cycle that fetched N messages, exactly N events were fired,
\* one for each fetched message, when the acknowledge of the batch is sent.
C1_EmitsBeforeAck ==
    taskPc = "ack" =>
        /\ Len(cycleEmitted) = Len(messages)
        /\ Len(cycleEmitted) = Cardinality(fetched)
        /\ EmittedIds = fetched

C1_Witness ==
    /\ taskPc = "ack"
    /\ Cardinality(fetched) = 2
    /\ Len(cycleEmitted) = 2

\* C2: every acknowledge, of a live cycle or of the startup drain, carries the
\* greatest id of the batch fetched before it, as an integer: an id of the
\* batch that no id of the batch exceeds.
C2_AckCarriesMaxId ==
    AckInFlight => /\ max_id \in fetched
                   /\ \A i \in fetched : i <= max_id

\* the provider returned 10 before 9
C2_Witness ==
    /\ taskPc = "ack"
    /\ fetched = {FirstId, FirstId + 1}
    /\ messages[1][K_id] = IntToStr(FirstId + 1)
    /\ max_id = FirstId + 1

C4_NoLiveDrop ==
    \A p \in liveArrived :
        /\ p[1] \notin droppedByLive
        /\ \A q \in droppedByDrain : q[1] # p[1]

\* C4 as amended: no acknowledge of a live cycle removes such a message
\* un-emitted; only the startup drain of a later start() does.
C4_LiveDropOnlyByLaterDrain ==
    \A p \in liveArrived :
        /\ p[1] \notin droppedByLive
        /\ \A q \in droppedByDrain : q[1] = p[1] => q[2] > p[2]

\* a live message was acknowledged after its event, while a later one, which
\* arrived in the same session, stays queued and un-emitted
C4_Witness ==
    \E p, r \in liveArrived :
        /\ p[1] \in settled
        /\ r[1] > p[1]
        /\ r[1] \in queue
        /\ emitted[r[1]] = 0

\* C5: once start() has completed, the messages that were pending when it was
\* called have been acknowledged: none of them is left in the provider queue.
C5_BacklogDrained == SessionUp => backlog \cap queue = {}

\* C6 as claimed: over the starts of one client, whose storage is never
\* cleared, at most one device is registered.
C6_RegisterAtMostOnce == regCount <= 1

\* C6 as amended: a start() that finds an identity in the store does not
\* register, so that devices are registered at most once plus once for each
\* failed save.
C6_RegisterOncePerSave ==
    /\ hostPc = "register" => store = None
    /\ regCount <= 1 + saveFails

\* the second start() completed after the first one had: one registration
C6_Witness ==
    /\ starts = 2
    /\ ws_task = 1
    /\ hostPc = "started"
    /\ regCount = 1
    /\ device_id = store

\* C7: of the backoff delays slept to their end since the construction or the
\* last login, the first is the initial delay and each later one is twice the
\* one before, capped at the maximum: never less than the one before, never
\* more than the maximum.  After a login the delay is the initial one.
C7_BackoffSequence ==
    /\ sleptLast # 0 =>
         /\ sleptLast <= MAX_RECONNECT_DELAY
         /\ sleptLast >= sleptPrev
         /\ IF sleptPrev = 0
            THEN sleptLast = INITIAL_RECONNECT_DELAY
            ELSE \/ sleptLast = RECONNECT_FACTOR * sleptPrev
                 \/ sleptLast = MAX_RECONNECT_DELAY /\ RECONNECT_FACTOR * sleptPrev > sleptLast
    /\ taskPc = "recv" => reconnect_delay = INITIAL_RECONNECT_DELAY

\* the step at which the cap cuts the doubling
C7_Witness ==
    /\ sleptLast = MAX_RECONNECT_DELAY
    /\ sleptPrev # 0
    /\ sleptPrev < sleptLast
    /\ RECONNECT_FACTOR * sleptPrev > MAX_RECONNECT_DELAY

\* C8: after a stop() called during the backoff sleep, the sleep is
\* interrupted: the task is in no other await of the loop again, it sends no
\* fetch and no acknowledge, and it is over when stop() returns.
C8_StopDuringBackoff ==
    stopAt = "sleep" =>
        /\ taskPc \in {"sleep", "cancelled"}
        /\ taskPc = "sleep" => cancelReq
        /\ hostPc = "stopped" => taskPc = "cancelled"

C8_Witness ==
    /\ stopAt = "sleep"
    /\ hostPc = "stopped"
    /\ taskPc = "cancelled"

LoginSucceeded == loginResp.kind = "ok" /\ loginResp.status = 1

\* C10: async_validate_credentials returns a secret exactly when the body of
\* the response reports status 1; after any other response it has raised
\* InvalidAuthError and returned nothing.
C10_ValidateSecretOrInvalidAuth ==
    loginResp.kind # "none" =>
        /\ LoginSucceeded <=> validateRet # None
        /\ LoginSucceeded => startErr # "InvalidAuthError"
        /\ ~LoginSucceeded => startErr = "InvalidAuthError" /\ hostPc = "failed"

\* a transport failure of the login request
C10_Witness ==
    /\ loginResp.kind = "net"
    /\ startErr = "InvalidAuthError"
    /\ validateRet = None

(***************************************************************************)
(* Properties of the failure handling.                                     *)
(***************************************************************************)
\* start() has returned without an exception
StartCompleted == hostPc \in {"started", "listening", "stopping", "stopped"}

\* the steps of the start sequence whose failure the caller must see
FatalSteps == {"validate", "load", "register", "drainFetch", "drainAck"}

\* C11: a start() that has completed had no failure in its credential
\* validation, its identity load or registration, or its startup drain.
C11_StartFailureFatal == StartCompleted => startLog \cap FatalSteps = {}

\* C12: of the starts that failed, two with different causes (authentication,
\* registration, transport) never surfaced the same error kind.
C12_DistinctErrorKinds ==
    \A p, q \in surfaced : p[1] # q[1] => p[2] # q[2]

AbsorbedInPlace == {"fetch", "ack"}
LeadsToBackoff == {"connect", "send", "frame", "malformed"}

\* C13 as claimed: no exception leaves listen(), and after every failure the
\* loop is on its way to the backoff wait.
C13_FailureLeadsToBackoff ==
    /\ taskPc # "raised"
    /\ lastFail # "none" => taskPc \in {"close", "sleep"} \/ (taskPc = "done" /\ ~running)

\* C13 as amended: no exception leaves listen() and listen() returns only
\* with the running flag cleared; a transport failure of the fetch or of the
\* acknowledge is absorbed in the frame loop of the same connection, and
\* every other failure takes the loop to the finally and the backoff wait.
C13_FailuresAbsorbed ==
    /\ taskPc # "raised"
    /\ taskPc = "done" => ~running
    /\ lastFail \in AbsorbedInPlace => taskPc = "recv"
    /\ lastFail \in LeadsToBackoff =>
         taskPc \in {"close", "sleep"} \/ (taskPc = "done" /\ ~running)

\* a response that is not JSON took the loop to the backoff sleep
C13_Witness ==
    /\ lastFail = "malformed"
    /\ taskPc = "sleep"
    /\ queue # {}

\* C14: after a stop() that found the task suspended in an await, the task
\* stays in that await until the CancelledError is delivered, and is then
\* over with the cancellation: it takes no other step of the loop.
C14_CancelPropagates ==
    stopAt \in AwaitPcs =>
        IF cancelReq THEN taskPc = stopAt ELSE taskPc = "cancelled"

\* cancelled while the acknowledge was in flight
C14_Witness ==
    /\ stopAt = "ack"
    /\ taskPc = "cancelled"
    /\ hostPc = "stopped"

\* C15: while stop() waits for the task, its return is possible whatever the
\* task does: by the end of the task or by the end of a bounded wait.
C15_StopWaitBounded == hostPc = "stopping" => ENABLED StopReturn

\* C16: the registrar is called only by a start() whose load found nothing
\* stored, and a registration failure only occurs in such a start().
C16_RegisterOnlyWhenAbsent ==
    /\ hostPc \in {"register", "save"} => "absent" \in startLog
    /\ hostPc = "register" => store = None /\ device_id = None
    /\ ("register" \in startLog \/ startErr = "RuntimeError") => "absent" \in startLog

\* a registration failed in a start() whose load returned nothing
C16_Witness ==
    /\ hostPc = "failed"
    /\ startErr = "RuntimeError"
    /\ "absent" \in startLog
    /\ store = None

\* C17: a start() whose identity load failed goes on to register a device:
\* it does not fail by the load.
C17_LoadFailureNotFatal ==
    "load" \in startLog => hostPc # "failed" \/ startErr = "RuntimeError"

\* C18: after a failed save, start() goes on: the drain and the session use
\* the id the registrar just gave, nothing is stored, and start() does not
\* fail by the save.
C18_SaveFailureSwallowed ==
    "save" \in startLog =>
        /\ device_id # None
        /\ device_id = regCount
        /\ store = None
        /\ hostPc # "save"
        /\ hostPc = "failed" => startErr = "ValueError"

\* the session is logged in with the id that could not be saved
C18_Witness ==
    /\ "save" \in startLog
    /\ hostPc = "listening"
    /\ taskPc = "recv"
    /\ device_id = 1
    /\ store = None

\* C19: after a failed acknowledge the loop is back at the frames of the
\* same connection, the batch is still in the provider queue, and the next
\* cycle that reaches its acknowledge has fired the batch again.
C19_AckFailureRefetched ==
    /\ lastFail = "ack" => taskPc = "recv" /\ unacked # {}
    /\ unacked \subseteq queue
    /\ taskPc = "ack" => unacked \subseteq EmittedIds

\* the batch whose acknowledge failed was fetched and fired again
C19_Witness ==
    /\ taskPc = "ack"
    /\ unacked # {}
    /\ \A i \in unacked : emitted[i] = 2

\* C20: the step in which the GET of a live cycle fails with a ClientError
\* fires no event, changes nothing at the provider and leaves the loop at
\* the frames of the same connection; a GET is sent only after the settle
\* delay that follows a new-message frame.
C20_FetchFailureNoProgress ==
    [][/\ (lastFail' = "fetch" /\ taskPc = "fetch") =>
            /\ taskPc' = "recv"
            /\ emitted' = emitted
            /\ queue' = queue
            /\ messages' = <<>>
            /\ cycleEmitted' = <<>>
       /\ (taskPc' = "fetch" /\ taskPc # "fetch") => taskPc = "settle"]_vars

\* a failed GET with a message pending: nothing fired, the message still queued
C20_Witness ==
    /\ lastFail = "fetch"
    /\ taskPc = "recv"
    /\ queue # {}
    /\ \A i \in queue : emitted[i] = 0

(***************************************************************************)
(* The supervisor loop of listen: its states are the values of taskPc.     *)
(* LoggedIn is "recv" and the cycle states, Disconnected is "close", the   *)
(* backoff wait is "sleep", Connecting is "connect" and "login", Stopped   *)
(* is "done" or "cancelled".                                               *)
(***************************************************************************)
LoggedIn == {"recv", "settle", "fetch", "emit", "ack"}
CycleStates == {"settle", "fetch", "emit", "ack"}
DisconnectFrames == {"R", "E", "A", "ERROR", "CLOSED"}

\* C21: once a frame R, E or A, an error frame or the close of the
\* connection has been received, the loop is no longer reading frames: it
\* is closing the connection, in the backoff wait, or over.
C21_ReconnectFramesLeaveLoggedIn ==
    lastFrame \in DisconnectFrames => taskPc \in {"close", "sleep", "done", "cancelled"}

\* C22: the loop enters the settle delay only by receiving a '!' frame, sends
\* the GET only after the settle delay, emits and acknowledges only after
\* the GET, and takes a frame only when no cycle is in progress (the batch,
\* the loop index and the acknowledge id of the last cycle are gone).
C22_CycleOnlyOnNewMessageFrame ==
    [][/\ (taskPc' = "settle" /\ taskPc # "settle") =>
            taskPc = "recv" /\ lastFrame' = "!"
       /\ (taskPc' = "fetch" /\ taskPc # "fetch") =>
            taskPc = "settle" /\ lastFrame = "!"
       /\ (taskPc' = "emit" /\ taskPc # "emit") => taskPc = "fetch"
       /\ (taskPc' = "ack" /\ taskPc # "ack") => taskPc = "emit"
       /\ taskPc \in CycleStates => lastFrame' \in {lastFrame, "none"}
       /\ taskPc = "recv" =>
            messages = <<>> /\ emitIdx = 0 /\ cycleEmitted = <<>> /\ fetched = {}]_vars

\* a second cycle of the connection is at its GET, the first one acknowledged
C22_Witness ==
    /\ taskPc = "fetch"
    /\ lastFrame = "!"
    /\ settled # {}
    /\ queue # {}

\* C23: the reconnect delay is always in [10, 300], and it changes only in a
\* step of the loop (after the login line, after the backoff sleep), never
\* in a step of start(), of stop() or of the message channel.
C23_DelayBoundedAndOwned ==
    /\ reconnect_delay \in INITIAL_RECONNECT_DELAY..MAX_RECONNECT_DELAY
    /\ [][/\ reconnect_delay' \in INITIAL_RECONNECT_DELAY..MAX_RECONNECT_DELAY
          /\ reconnect_delay' # reconnect_delay =>
               /\ taskPc \in {"login", "sleep"}
               /\ hostPc' = hostPc]_vars

\* the delay at its maximum while stop() is waiting for the task
C23_Witness ==
    /\ reconnect_delay = MAX_RECONNECT_DELAY
    /\ sleptLast = MAX_RECONNECT_DELAY
    /\ hostPc = "stopping"

\* C24: the loop goes to ws_connect only with the flag set, and a listen()
\* that finds the flag clear at its first test is over at once; so is the
\* listen() of a client whose start() was never called.
C24_ConnectOnlyWhileRunning ==
    [][/\ (taskPc' = "connect" /\ taskPc # "connect") => running
       /\ (taskPc = "created" /\ ~running /\ taskPc' # taskPc) => taskPc' = "done"
       /\ (taskPc \in {"close", "sleep"} /\ ~running /\ taskPc' # taskPc) =>
            taskPc' \in {"done", "cancelled"}]_vars

\* listen() on a client that was never started: over, no connection tried
C24_Witness ==
    /\ starts = 0
    /\ taskPc = "done"
    /\ ws_task = UnstartedTask
    /\ ~running

\* C25: once stop() has returned the flag is clear and the task is over or
\* has not begun; from then on, until a new start(), the task is at no
\* connection, no GET, no emission and no acknowledge.
C25_StoppedIsTerminal ==
    /\ [](hostPc = "stopped" =>
            /\ ~running
            /\ taskPc \in {"created", "done", "cancelled", "raised"})
    /\ [][(hostPc = "stopped" /\ hostPc' = "stopped") =>
            /\ taskPc' \in {"created", "done", "cancelled", "raised"}
            /\ emitted' = emitted
            /\ queue \subseteq queue']_vars

\* stop() called between the emission and the acknowledge has returned
C25_Witness ==
    /\ hostPc = "stopped"
    /\ stopAt = "ack"
    /\ taskPc = "cancelled"

\* C26: while the flag stays set, a loop that closed its connection gets to
\* another ws_connect, and with a provider that accepts connections in the
\* end it gets to read frames again.
C26_ReconnectLiveness ==
    /\ (taskPc = "close" /\ running) ~> (taskPc = "connect" \/ ~running)
    /\ (taskPc = "close" /\ running) ~> (taskPc = "recv" \/ ~running)

\* after two backoff waits the provider has accepted the connection
C26_Witness ==
    /\ taskPc = "login"
    /\ running
    /\ ~cancelReq
    /\ sleptPrev = INITIAL_RECONNECT_DELAY
    /\ sleptLast = NextDelay(INITIAL_RECONNECT_DELAY)

\* C27: the loop reads frames only on a connection on which the line
\* login:<device_id>:<secret> was sent, and the delay goes back to its
\* initial value only in the step that sent the line: a failed ws_connect
\* or send_str leaves the delay as it was.
C27_LoginBeforeFramesAndReset ==
    /\ [](taskPc \in LoggedIn => loginLine = LoginStr(device_id, secret))
    /\ [][/\ (reconnect_delay' = INITIAL_RECONNECT_DELAY
                /\ reconnect_delay # INITIAL_RECONNECT_DELAY) =>
               /\ taskPc = "login"
               /\ taskPc' = "recv"
               /\ loginLine' = LoginStr(device_id, secret)
          /\ (taskPc \in {"connect", "login"} /\ taskPc' = "close") =>
               reconnect_delay' = reconnect_delay]_vars

\* the send of the login line failed after a backoff: the delay stays raised
C27_Witness ==
    /\ lastFail = "send"
    /\ taskPc = "close"
    /\ reconnect_delay > INITIAL_RECONNECT_DELAY
    /\ loginLine = <<>>

\* C28: the step that receives a '#' frame keeps the loop at the frames of
\* the same connection and changes nothing of the client, of the provider's
\* queue, of the events fired or of the cycle.
C28_KeepAliveIsNoOp ==
    /\ [](lastFrame = "#" => taskPc = "recv")
    /\ [][(lastFrame' = "#" /\ lastFrame # "#") =>
            /\ taskPc = "recv"
            /\ taskPc' = "recv"
            /\ UNCHANGED <<clientVars, provVars, localVars, emitted, cycleEmitted,
                           settled, loginLine, unacked>>]_vars

\* a keep-alive with a message pending: nothing fetched, nothing fired
C28_Witness ==
    /\ lastFrame = "#"
    /\ taskPc = "recv"
    /\ queue # {}
    /\ \A i \in queue : emitted[i] = 0

\* C32: a stop() that runs while the task is created and has not run its
\* first step returns in that step, with no cancellation pending and the
\* task left as it was; the task, once it runs with the flag clear, is over
\* in its first step: no ws_connect, no login line.
C32_StopBeforeFirstStep ==
    [][/\ (hostPc = "listening" /\ taskPc = "created" /\ running /\ ~running') =>
            /\ hostPc' = "stopped"
            /\ cancelReq' = FALSE
            /\ taskPc' = "created"
            /\ ws_task' = ws_task
       /\ (taskPc = "created" /\ ~running /\ taskPc' # "created") =>
            /\ taskPc' = "done"
            /\ hostPc' = hostPc
            /\ loginLine' = loginLine]_vars

\* the first session: stop() came before the first step of the task, and
\* the task has run since
C32_Witness ==
    /\ starts = 1
    /\ hostPc = "stopped"
    /\ stopAt = "created"
    /\ taskPc = "done"
    /\ ws_task = starts
    /\ loginLine = <<>>

\* the task is in the loop of listen
InLoop == LoggedIn \cup {"connect", "login", "close", "sleep"}

\* C33: while the task is in the loop the secret is the one the login of
\* the last start() returned and the device id is set; the secret, the
\* device id and the provider's counts of logins and registrations change
\* only in a step of start(), with no task of the client alive; a login
\* line that is sent is made of the device id and of that secret.
C33_SessionFixedWhileListening ==
    /\ [](taskPc \in InLoop =>
            /\ secret # None
            /\ secret = validateRet
            /\ device_id # None)
    /\ [][/\ (secret' # secret \/ device_id' # device_id
                \/ loginCount' # loginCount \/ regCount' # regCount) =>
               /\ hostPc \in {"validate", "load", "register"}
               /\ taskPc = "none"
               /\ taskPc' = "none"
          /\ (loginLine' # loginLine /\ loginLine' # <<>>) =>
               /\ taskPc = "login"
               /\ loginLine' = LoginStr(device_id, validateRet)
               /\ UNCHANGED <<device_id, validateRet>>]_vars

\* the second session, at the login line of a connection opened after a
\* backoff: the secret is still the one of the second login, and there was
\* one login per start() and one registration
C33_Witness ==
    /\ starts = 2
    /\ taskPc = "login"
    /\ sleptLast = INITIAL_RECONNECT_DELAY
    /\ loginCount = 2
    /\ secret = 2
    /\ validateRet = 2
    /\ regCount = 1
    /\ device_id # None

\* C30: an entry that has a started client and no record in the registry
\* has a stopped client: the flag is clear and no task of it is running.
C30_RemovedImpliesStopped ==
    (hostPc = "listening" /\ ~registry) => (~running /\ TaskOver)

(***************************************************************************)
(* _enrich_message_payload on its own: one message in, its mapping out.    *)
(***************************************************************************)
BodyAlphabet == {"a", "=", "&", " ", "\n"}

GeneratedBodies == UNION {[1..n -> BodyAlphabet] : n \in 0..MaxBodyLen}

\* "a=1\nb=2\nnokey\nc= 3 &"
ExampleBody ==
    <<"a", "=", "1", "\n", "b", "=", "2", "\n", "n", "o", "k", "e", "y", "\n",
      "c", "=", " ", "3", " ", "&">>

\* "id=5\nid=6\ndevice_name=z": a provider field written twice, a session field once
OverrideBody ==
    <<"i", "d", "=", "5", "\n", "i", "d", "=", "6", "\n",
      "d", "e", "v", "i", "c", "e", "_", "n", "a", "m", "e", "=", "z">>

\* "a=1\nb=2\na=3": a key of the body on two lines, another key between them
RepeatedKeyBody == <<"a", "=", "1", "\n", "b", "=", "2", "\n", "a", "=", "3">>

MsgWithBody(body) == K_id :> <<"7">> @@ K_message :> body

EnrichInputs ==
    {MsgWithBody(b) : b \in GeneratedBodies \cup {ExampleBody, OverrideBody, RepeatedKeyBody}}
        \cup {K_id :> <<"7">>}

InitEnrich ==
    /\ InitMain
    /\ msgIn \in EnrichInputs
    /\ enrichedOut = EmptyDict
    /\ enrichPc = "idle"
    /\ InitCycleIdle

ApplyEnrich ==
    /\ enrichPc = "idle"
    /\ enrichedOut' = EnrichMessagePayload(msgIn)
    /\ enrichPc' = "done"
    /\ UNCHANGED <<clientVars, store, provVars, hostVars, taskVars, localVars, authHist,
                   msgHist, saveFails, sleepHist, stopAt, obsHist, startHist, failHist,
                   connHist, registry, msgIn, cycleVars>>

NextEnrich == ApplyEnrich

SpecEnrich == InitEnrich /\ [][NextEnrich]_vars

(***************************************************************************)
(* C9: for the body "a=1\nb=2\nnokey\nc= 3 &" the enriched mapping holds   *)
(* a = "1", b = "2" and c = "3", holds no entry for the line without '=',  *)
(* and no mapping ever gets an entry with an empty key.                    *)
(***************************************************************************)
C9_EnrichmentExample ==
    enrichPc = "done" =>
        /\ <<>> \notin DOMAIN enrichedOut
        /\ msgIn = MsgWithBody(ExampleBody) =>
             /\ {<<"a">>, <<"b">>, <<"c">>} \subseteq DOMAIN enrichedOut
             /\ enrichedOut[<<"a">>] = <<"1">>
             /\ enrichedOut[<<"b">>] = <<"2">>
             /\ enrichedOut[<<"c">>] = <<"3">>
             /\ <<"n", "o", "k", "e", "y">> \notin DOMAIN enrichedOut

(***************************************************************************)
(* The precedence of the enrichment, stated without the loop: the base     *)
(* record is the message with the two session fields; a token is a line    *)
(* with '=' and a key that is not empty after cleaning.                    *)
(***************************************************************************)
BaseRecord(msg) ==
    [k \in (DOMAIN msg) \cup {K_user_email, K_device_name} |->
        IF k = K_user_email THEN Email
        ELSE IF k = K_device_name THEN DeviceName
        ELSE msg[k]]

TokenKey(line) == Clean(SplitKey(line))
TokenValue(line) == Clean(SplitValue(line))

TokenLines(lines) ==
    {i \in 1..Len(lines) : Contains(lines[i], "=") /\ TokenKey(lines[i]) # <<>>}

\* C29: the emitted mapping has the keys of the base record and of the
\* tokens; a key that a token names holds the value of the last line that
\* names it, whether or not the base record has the key; every other key
\* holds the value of the base record.
C29_LastWriteWins ==
    (enrichPc = "done" /\ K_message \in DOMAIN msgIn) =>
        LET lines == SplitLines(msgIn[K_message])
            base == BaseRecord(msgIn)
            Named(k) == {i \in TokenLines(lines) : TokenKey(lines[i]) = k}
        IN  /\ DOMAIN enrichedOut =
                   (DOMAIN base) \cup {TokenKey(lines[i]) : i \in TokenLines(lines)}
            /\ \A k \in DOMAIN enrichedOut :
                   IF Named(k) = {}
                   THEN enrichedOut[k] = base[k]
                   ELSE enrichedOut[k] = TokenValue(lines[SetMax(Named(k))])

\* the body that writes id twice and device_name once: the embedded values
\* are emitted, for id the one of the last line
C29_Witness ==
    /\ enrichPc = "done"
    /\ msgIn = MsgWithBody(OverrideBody)
    /\ enrichedOut[K_id] = <<"6">>
    /\ enrichedOut[K_device_name] = <<"z">>
    /\ enrichedOut[K_user_email] = Email

(***************************************************************************)
(* fetch_and_fire on its own, from the list it read to the acknowledge:    *)
(* the messages carry a body, and a body may carry a token named id.       *)
(***************************************************************************)
\* the ids the provider gave the messages of a batch
BatchIds == {<<"7">>, <<"8">>, <<"9">>}

\* "a=1"
PlainBody == <<"a", "=", "1">>
\* "id=5": an embedded id below every id of the provider
LowIdBody == <<"i", "d", "=", "5">>
\* "x\nid=99": an embedded id above every id of the provider
HighIdBody == <<"x", "\n", "i", "d", "=", "9", "9">>

BatchBodies == {PlainBody, LowIdBody, HighIdBody}

\* a message of the provider: its id, and a body or none
BatchMessages ==
    {K_id :> i : i \in BatchIds}
        \cup {K_id :> i @@ K_message :> b : i \in BatchIds, b \in BatchBodies}

\* the answers of messages.json with one or two messages, their ids distinct
Batches ==
    {<<m>> : m \in BatchMessages}
        \cup {b \in BatchMessages \X BatchMessages : b[1][K_id] # b[2][K_id]}

\* variant: enriched = msg, the tokens are written into the fetched message
EnrichEffect_inPlace(msg) ==
    [enriched |-> EnrichMessagePayload(msg), msg |-> EnrichMessagePayload(msg)]

\* enriched = dict(msg): the tokens are written into a copy, msg stays as it was
EnrichEffect(msg) == [enriched |-> EnrichMessagePayload(msg), msg |-> msg]

InitCycle ==
    /\ InitMain
    /\ msgIn = EmptyDict
    /\ enrichedOut = EmptyDict
    /\ enrichPc = "idle"
    /\ batchIn \in Batches
    /\ rawBatch = batchIn
    /\ fired = <<>>
    /\ ackId = 0
    /\ cyclePc = "emit"

\* one turn of for msg in messages: enrich, async_fire
CycleEmit ==
    /\ cyclePc = "emit"
    /\ Len(fired) < Len(rawBatch)
    /\ LET i == Len(fired) + 1
           e == EnrichEffect(rawBatch[i])
       IN  /\ fired' = Append(fired, e.enriched)
           /\ rawBatch' = [rawBatch EXCEPT ![i] = e.msg]
    /\ UNCHANGED <<clientVars, store, provVars, hostVars, taskVars, localVars, authHist,
                   msgHist, saveFails, sleepHist, stopAt, obsHist, startHist, failHist,
                   connHist, registry, msgIn, enrichedOut, enrichPc, batchIn, ackId,
                   cyclePc>>

\* if messages: max_id = max(int(m["id"]) for m in messages), then the POST
CycleAck ==
    /\ cyclePc = "emit"
    /\ Len(fired) = Len(rawBatch)
    /\ rawBatch # <<>>
    /\ ackId' = MaxId(rawBatch)
    /\ cyclePc' = "acked"
    /\ UNCHANGED <<clientVars, store, provVars, hostVars, taskVars, localVars, authHist,
                   msgHist, saveFails, sleepHist, stopAt, obsHist, startHist, failHist,
                   connHist, registry, msgIn, enrichedOut, enrichPc, batchIn, rawBatch,
                   fired>>

NextCycle == CycleEmit \/ CycleAck

SpecCycle == InitCycle /\ [][NextCycle]_vars

\* the ids of a batch as the provider gave them, as integers
ProviderIds(batch) == {StrToInt(batch[i][K_id]) : i \in DOMAIN batch}

\* the value of the last token named id in the body of msg, <<>> if none
EmbeddedId(msg) ==
    IF K_message \notin DOMAIN msg THEN <<>>
    ELSE LET lines == SplitLines(msg[K_message])
             named == {i \in TokenLines(lines) : TokenKey(lines[i]) = K_id}
         IN  IF named = {} THEN <<>> ELSE TokenValue(lines[SetMax(named)])

\* C31: the id acknowledged for a batch is the greatest id the provider gave
\* to a message of the batch, whatever the bodies hold; the mapping fired for
\* a message holds the embedded id when its body has a token named id, and
\* the provider's id otherwise.
C31_AckIdFromProviderIds ==
    /\ cyclePc = "acked" =>
          /\ ackId \in ProviderIds(batchIn)
          /\ \A j \in ProviderIds(batchIn) : j <= ackId
    /\ \A i \in DOMAIN fired :
          fired[i][K_id] =
              IF EmbeddedId(batchIn[i]) = <<>> THEN batchIn[i][K_id]
              ELSE EmbeddedId(batchIn[i])

\* a batch whose greatest id has a body with id=99: the mapping fired holds
\* 99, the acknowledge holds the id of the provider
C31_Witness ==
    /\ cyclePc = "acked"
    /\ Len(batchIn) = 2
    /\ fired[2][K_id] = <<"9", "9">>
    /\ batchIn[2][K_id] = <<"9">>
    /\ ackId = 9

=============================================================================
